---- MODULE Spec2Model ----
(***************************************************************************)
(* pg-boss queue manager (src/manager.js) as a state machine.              *)
(*                                                                         *)
(* The Manager is a facade over three collaborators whose code is not in   *)
(* src/: the store commands of ./plans (insertJob, fetchNextJob,           *)
(* completeJobs, failJobs, cancelJobs and the expiration sweep), the       *)
(* poller of ./worker and the argument checks of ./attorney.  Those are    *)
(* modelled from the written specification (sections 4.3 and 4.4); every   *)
(* other definition is a translation of manager.js.                        *)
(*                                                                         *)
(* JavaScript values: null/undefined numeric options are 0 (the code tests *)
(* them with "> 0" and "||", which treat 0 and undefined alike), a null    *)
(* singletonKey is the empty string (falsy as well), a null singletonOn is *)
(* NoWindow.                                                               *)
(***************************************************************************)
EXTENDS Integers, Sequences, FiniteSets, TLC

\* ---------------------------------------------------------------- bounds
MaxTime == 2        \* the store clock runs 0..MaxTime (seconds)
MaxJobs == 2        \* rows of the job table, queue and subscriptions
MaxSingletons == 3  \* rows of the job table, deduplication alone
MaxInFlight == 2    \* createJob retries / poller fetches awaiting the store
MaxWorkers == 2     \* pollers ever constructed by watch
MaxAttempts == 3    \* cap on the insert attempts one publish is followed for
MaxPending == 1     \* subscribe/onComplete calls awaiting their argument check

\* ------------------------------------------------------------- constants
completedJobSuffix == "__state__completed"
JobNames == {"q"}
Keys == {"", "k"}                 \* options.singletonKey: absent or "k"
WindowSeconds == {0, 2}           \* options.singletonSeconds: absent or 2
StartIns == {0, 1, 3}             \* options.startIn: absent, 1 or 3 seconds
BatchSizes == {0, 1, 2}           \* fetch's batchSize argument: absent, 1 or 2
TeamSizes == {0, 2}               \* a subscription's batchSize, teamSize: absent or 2
SubNames == JobNames \cup {n \o completedJobSuffix : n \in JobNames}
NoWindow == -1
\* Names every JavaScript object inherits from Object.prototype: looked up
\* in the registry they yield a function, not a subscription.
PrototypeKeys == {"toString"}

Terminal == {"completed", "failed", "cancelled", "expired"}
States == {"created", "active"} \cup Terminal

VARIABLES
  now,            \* the store's clock
  jobs,           \* the job table: a sequence of rows, a row's id is its index
  creating,       \* createJob calls whose insert has not yet run at the store
  fetching,       \* fetch calls whose claim has not yet run at the store
  immediates,     \* batches handed to setImmediate by respond, not yet dispatched
  subscriptions,  \* Manager.subscriptions: name -> index of its worker
  workers,        \* every Worker constructed by watch
  checking,       \* subscribe/onComplete calls awaiting checkSubscribeArgs
  ret             \* what the latest settled call or callback run came to

vars == <<now, jobs, creating, fetching, immediates, subscriptions, workers, checking, ret>>

\* --------------------------------------------------------------- helpers
Range(s) == {s[i] : i \in DOMAIN s}

RemoveAt(s, i) == SubSeq(s, 1, i - 1) \o SubSeq(s, i + 1, Len(s))

Min(a, b) == IF a <= b THEN a ELSE b

\* The ids of a set, ascending (creation order: ids are assigned in order).
RECURSIVE Ascending(_)
Ascending(S) ==
  IF S = {} THEN <<>>
  ELSE LET m == CHOOSE x \in S : \A y \in S : x <= y
       IN <<m>> \o Ascending(S \ {m})

\* ------------------------------------------------ the store (./plans)
\* A row of the job table.  claims and dispatched are history: how often
\* the row was returned by a claim and handed to a subscriber callback;
\* attempt is the createJob round (1 or 2) that inserted it.
Row(name, startAfter, key, on, attempt) ==
  [name |-> name, state |-> "created", startAfter |-> startAfter,
   singletonKey |-> key, singletonOn |-> on,
   claims |-> 0, dispatched |-> 0, attempt |-> attempt]

\* The window a publish falls into: the start of the singletonSeconds-wide
\* bucket holding (clock + offset); no window when singletonSeconds is null.
singletonOn(clock, singletonSeconds, singletonOffset) ==
  IF singletonSeconds > 0
  THEN singletonSeconds * ((clock + singletonOffset) \div singletonSeconds)
  ELSE NoWindow

\* A row takes part in deduplication when it has a key or a window.
Slotted(key, on) == key # "" \/ on # NoWindow

\* A non-terminal row already occupies the (name, singletonKey, window) slot.
Occupied(table, name, key, on) ==
  /\ Slotted(key, on)
  /\ \E i \in DOMAIN table :
       /\ table[i].state \notin Terminal
       /\ table[i].name = name
       /\ table[i].singletonKey = key
       /\ table[i].singletonOn = on

\* insertJob without conflict detection.
insertJobAlways(table, clock, name, startIn, key, singletonSeconds, singletonOffset, attempt) ==
  [rowCount |-> 1,
   table |-> Append(table, Row(name, clock + startIn, key,
                               singletonOn(clock, singletonSeconds, singletonOffset),
                               attempt))]

\* insertJob: one row affected, or none on a dedup-slot conflict.
insertJob(table, clock, name, startIn, key, singletonSeconds, singletonOffset, attempt) ==
  LET on == singletonOn(clock, singletonSeconds, singletonOffset)
  IN IF Occupied(table, name, key, on)
     THEN [rowCount |-> 0, table |-> table]
     ELSE [rowCount |-> 1,
           table |-> Append(table, Row(name, clock + startIn, key, on, attempt))]

\* A row fetchNextJob may claim.
Claimable(row, clock, names) ==
  /\ row.state = "created"
  /\ row.name \in names
  /\ clock >= row.startAfter

\* fetchNextJob taking created rows whether they are due or not.
fetchNextJobEarly(table, clock, names, limit) ==
  LET eligible == Ascending({i \in DOMAIN table :
                               table[i].state = "created" /\ table[i].name \in names})
      rows == SubSeq(eligible, 1, Min(limit, Len(eligible)))
  IN [rows |-> rows,
      table |-> [i \in DOMAIN table |->
                   IF i \in Range(rows)
                   THEN [table[i] EXCEPT !.state = "active"]
                   ELSE table[i]]]

\* fetchNextJob selecting its rows without making them active.
fetchNextJobNoUpdate(table, clock, names, limit) ==
  LET eligible == Ascending({i \in DOMAIN table : Claimable(table[i], clock, names)})
  IN [rows |-> SubSeq(eligible, 1, Min(limit, Len(eligible))), table |-> table]

\* fetchNextJob: up to limit claimable rows in creation order (every
\* publish of the model has the default priority 0), each made active.
fetchNextJob(table, clock, names, limit) ==
  LET eligible == Ascending({i \in DOMAIN table : Claimable(table[i], clock, names)})
      rows == SubSeq(eligible, 1, Min(limit, Len(eligible)))
  IN [rows |-> rows,
      table |-> [i \in DOMAIN table |->
                   IF i \in Range(rows)
                   THEN [table[i] EXCEPT !.state = "active"]
                   ELSE table[i]]]

\* completeJobs / failJobs / cancelJobs: the rows among ids that are in
\* a state of from move to state to; rowCount counts the rows moved.
Transition(table, ids, from, to) ==
  LET hit == {i \in DOMAIN table : i \in Range(ids) /\ table[i].state \in from}
  IN [rowCount |-> Cardinality(hit),
      table |-> [i \in DOMAIN table |->
                   IF i \in hit THEN [table[i] EXCEPT !.state = to] ELSE table[i]]]

completeJobs(table, ids) == Transition(table, ids, {"active"}, "completed")

\* failJobs without its test of the row's state.
failJobsAnyState(table, ids) == Transition(table, ids, States, "failed")

failJobs(table, ids) == Transition(table, ids, {"active"}, "failed")

cancelJobs(table, ids) == Transition(table, ids, {"created", "active"}, "cancelled")

\* ------------------------------------------------- Manager (manager.js)
Init ==
  /\ now = 0
  /\ jobs = <<>>
  /\ creating = <<>>
  /\ fetching = <<>>
  /\ immediates = <<>>
  /\ subscriptions = <<>>
  /\ workers = <<>>
  /\ checking = <<>>
  /\ ret = [op |-> "none"]

\* createJob, lines 145-148: the delay handed to the store.
startInOf(options) == IF options.startIn > 0 THEN options.startIn ELSE 0

\* createJob, lines 150-155 (only singletonSeconds is drawn by the model).
singletonSecondsOf(options) ==
  IF options.singletonSeconds > 0 THEN options.singletonSeconds ELSE 0

\* createJob resolving with the id it generated whatever the rowCount.
createJobOutcomeAlwaysId(rowCount, options) == "id"

\* createJob, lines 170-183: what the continuation does with the insert's
\* rowCount: resolve with the id, resolve with null, or go for round 2.
createJobOutcome(rowCount, options) ==
  IF rowCount = 1 THEN "id"
  ELSE IF ~options.singletonNextSlot THEN "null"
  ELSE "retry"

\* Round 2 without the delay by the window.
nextSlotOptionsNoDelay(options, singletonSeconds) ==
  [options EXCEPT !.singletonNextSlot = FALSE]

\* Round 2 keeping singletonNextSlot set.
nextSlotOptionsStillSet(options, singletonSeconds) ==
  [options EXCEPT !.startIn = singletonSeconds]

\* createJob, lines 176-181: the options and the offset of round 2.
nextSlotOptions(options, singletonSeconds) ==
  [options EXCEPT !.startIn = singletonSeconds, !.singletonNextSlot = FALSE]

\* The options publish is called with: a plain job, a key without a
\* window, and a key with a window, each of the last two with and without
\* singletonNextSlot.
PlainOptions ==
  [startIn : {0}, singletonKey : {""}, singletonSeconds : {0},
   singletonNextSlot : {FALSE}]

SingletonOptions ==
  [startIn : {0}, singletonKey : Keys \ {""}, singletonSeconds : WindowSeconds,
   singletonNextSlot : BOOLEAN]

\* createJob, lines 144-185: one round, the insert at the store and its
\* continuation, for the call [name, options, singletonOffset]; attempts
\* counts the inserts the publish has made before, collided is the window
\* whose slot its first insert found occupied, notBefore the time before
\* which the caller of publish asked the job not to start (the clock at the
\* call plus its startIn; 0 when it asked for no delay).  Round 2 waits in
\* creating; rest is that queue without this call.
createJob(call, rest) ==
  LET options == call.options
      startIn == startInOf(options)
      singletonSeconds == singletonSecondsOf(options)
      singletonKey == options.singletonKey
      singletonOffset == call.singletonOffset
      id == Len(jobs) + 1
      result == insertJob(jobs, now, call.name, startIn, singletonKey,
                          singletonSeconds, singletonOffset, call.attempts + 1)
      outcome == createJobOutcome(result.rowCount, options)
  IN /\ call.attempts < MaxAttempts
     /\ jobs' = result.table
     /\ IF outcome = "retry"
        THEN /\ Len(rest) < MaxInFlight
             /\ creating' = Append(rest,
                  [name |-> call.name,
                   options |-> nextSlotOptions(options, singletonSeconds),
                   singletonOffset |-> singletonSeconds,
                   attempts |-> call.attempts + 1,
                   collided |-> IF call.attempts = 0
                                THEN singletonOn(now, singletonSeconds, singletonOffset)
                                ELSE call.collided,
                   notBefore |-> call.notBefore])
             /\ UNCHANGED ret
        ELSE /\ creating' = rest
             /\ ret' = [op |-> "publish", rejected |-> FALSE,
                        value |-> IF outcome = "id" THEN id ELSE 0,
                        options |-> options,
                        attempts |-> call.attempts + 1,
                        collided |-> call.collided]
     /\ UNCHANGED <<now, fetching, immediates, subscriptions, workers, checking>>

\* publish, lines 131-134: the checked arguments go to createJob with no
\* offset (checkPublishArgs reads no state, so the call is followed from
\* its first insert).
publishCall(name, options) ==
  createJob([name |-> name, options |-> options, singletonOffset |-> 0,
             attempts |-> 0, collided |-> NoWindow,
             notBefore |-> IF startInOf(options) > 0
                           THEN now + startInOf(options) ELSE 0], creating)

publish ==
  /\ \E name \in JobNames, options \in PlainOptions \cup SingletonOptions :
       publishCall(name, options)
  /\ Len(jobs') <= MaxJobs

\* createJob, line 183: round 2 of a publish that asked for the next slot.
Round2(c) == createJob(creating[c], RemoveAt(creating, c))

retry(c) == Round2(c) /\ Len(jobs') <= MaxJobs

\* fetch unwrapping every single row, batchSize or not.
fetchValueUnwrapAlways(rows, batchSize) ==
  IF Len(rows) = 0 THEN [kind |-> "null"]
  ELSE IF Len(rows) = 1 THEN [kind |-> "object", job |-> rows[1]]
  ELSE [kind |-> "array", jobs |-> rows]

\* fetch, lines 192-194: the value the promise resolves with.  Rows are
\* named by their ids.
fetchValue(rows, batchSize) ==
  IF Len(rows) = 0 THEN [kind |-> "null"]
  ELSE IF Len(rows) = 1 /\ batchSize = 0 THEN [kind |-> "object", job |-> rows[1]]
  ELSE [kind |-> "array", jobs |-> rows]

\* The ids a fetch value hands to its caller.
Returned(value) ==
  IF value.kind = "null" THEN {}
  ELSE IF value.kind = "object" THEN {value.job}
  ELSE Range(value.jobs)

\* watch, lines 76-80: respond drops an empty result and makes anything
\* else an array; the array goes to setImmediate.
respond(value) ==
  IF value.kind = "null" THEN <<>>
  ELSE IF value.kind = "object" THEN <<value.job>>
  ELSE value.jobs

\* fetch of a poller whose respond calls the callbacks itself, without
\* setImmediate.
fetchCallDispatchingInline(call, rest) ==
  LET limit == IF call.batchSize # 0 THEN call.batchSize ELSE 1
      result == fetchNextJob(jobs, now, call.names, limit)
      value == fetchValue(result.rows, call.batchSize)
  IN /\ jobs' = [i \in DOMAIN jobs |->
                   IF i \in Returned(value)
                   THEN [result.table[i] EXCEPT
                           !.claims = @ + 1,
                           !.dispatched = IF call.worker = 0 THEN @ ELSE @ + 1]
                   ELSE result.table[i]]
     /\ fetching' = rest
     /\ IF call.worker = 0
        THEN ret' = [op |-> "fetch", batchSize |-> call.batchSize, value |-> value]
        ELSE UNCHANGED ret
     /\ UNCHANGED <<now, creating, immediates, subscriptions, workers, checking>>

\* fetch, lines 187-195: the claim at the store and the continuation, for
\* the call [worker, names, batchSize]; rest is the queue of poller
\* fetches without this call.  A direct caller (worker 0) gets the value,
\* a poller's fetch hands it to respond.
fetchCall(call, rest) ==
  LET limit == IF call.batchSize # 0 THEN call.batchSize ELSE 1
      result == fetchNextJob(jobs, now, call.names, limit)
      value == fetchValue(result.rows, call.batchSize)
  IN /\ jobs' = [i \in DOMAIN jobs |->
                   IF i \in Returned(value)
                   THEN [result.table[i] EXCEPT !.claims = @ + 1]
                   ELSE result.table[i]]
     /\ fetching' = rest
     /\ IF call.worker = 0
        THEN /\ ret' = [op |-> "fetch", batchSize |-> call.batchSize, value |-> value]
             /\ UNCHANGED immediates
        ELSE /\ immediates' = IF respond(value) = <<>> THEN immediates
                              ELSE Append(immediates, respond(value))
             /\ UNCHANGED ret
     /\ UNCHANGED <<now, creating, subscriptions, workers, checking>>

\* fetch by a direct caller (checkFetchArgs reads no state, so the call is
\* followed from its claim).
fetch ==
  \E name \in JobNames, batchSize \in BatchSizes :
    fetchCall([worker |-> 0, names |-> {name}, batchSize |-> batchSize], fetching)

\* fetchCompleted, lines 197-199.
fetchCompleted ==
  \E name \in JobNames, batchSize \in BatchSizes :
    fetchCall([worker |-> 0, names |-> {name \o completedJobSuffix},
               batchSize |-> batchSize], fetching)

\* The claim of a poller's fetch that was in flight.
claimNext(f) == fetchCall(fetching[f], RemoveAt(fetching, f))

\* respond calling the callback once more for a job whose callback threw.
respondCallsAgainOnThrow(batch, throws) ==
  batch \o SelectSeq(batch, LAMBDA j : j \in throws)

\* respond without its try/catch: the first callback that throws ends the
\* forEach.
respondCallsAbortOnThrow(batch, throws) ==
  LET thrown == {k \in DOMAIN batch : batch[k] \in throws}
  IN IF thrown = {} THEN batch
     ELSE SubSeq(batch, 1, CHOOSE k \in thrown : \A m \in thrown : k <= m)

\* watch, lines 85-96: the callback invocations of one batch, in order;
\* throws is the set of jobs whose callback throws (caught per job).
respondCalls(batch, throws) == batch

\* The setImmediate callback of respond: every job of the oldest batch
\* gets its done resolver and is handed to the subscriber callback.  The
\* run is recorded with its batch and the jobs whose callback threw.
dispatch ==
  /\ immediates # <<>>
  /\ \E throws \in SUBSET Range(Head(immediates)) :
       LET calls == respondCalls(Head(immediates), throws)
       IN /\ jobs' = [i \in DOMAIN jobs |->
                        [jobs[i] EXCEPT !.dispatched =
                           @ + Cardinality({k \in DOMAIN calls : calls[k] = i})]]
          /\ ret' = [op |-> "respond", batch |-> Head(immediates), threw |-> throws]
  /\ immediates' = Tail(immediates)
  /\ UNCHANGED <<now, creating, fetching, subscriptions, workers, checking>>

\* mapCompletionIdArg, lines 204-208: the id arguments complete, fail and
\* cancel accept, as arrays (a single id is wrapped, an empty array is
\* refused): one id, known or not, or two different known ids.
\* Id 0 stands for a uuid no row carries.
IdArgs ==
  {<<i>> : i \in 0..Len(jobs)} \cup
  {<<p[1], p[2]>> : p \in {q \in (1..Len(jobs)) \X (1..Len(jobs)) : q[1] < q[2]}}

\* mapCompletionResponse reporting the rows updated as requested.
mapCompletionResponseUpdatedTwice(ids, result) ==
  [jobs |-> ids, requested |-> result.rowCount, updated |-> result.rowCount]

\* mapCompletionResponse, lines 221-227.
mapCompletionResponse(ids, result) ==
  [jobs |-> ids, requested |-> Len(ids), updated |-> result.rowCount]

\* complete, lines 229-234.
complete(ids) ==
  LET result == completeJobs(jobs, ids)
  IN /\ jobs' = result.table
     /\ ret' = [op |-> "complete", response |-> mapCompletionResponse(ids, result)]
     /\ UNCHANGED <<now, creating, fetching, immediates, subscriptions, workers, checking>>

\* fail, lines 236-241.
fail(ids) ==
  LET result == failJobs(jobs, ids)
  IN /\ jobs' = result.table
     /\ ret' = [op |-> "fail", response |-> mapCompletionResponse(ids, result)]
     /\ UNCHANGED <<now, creating, fetching, immediates, subscriptions, workers, checking>>

\* cancel sending its ids with the command of complete.
cancelWithCompleteCommand(ids) ==
  LET result == completeJobs(jobs, ids)
  IN /\ jobs' = result.table
     /\ ret' = [op |-> "cancel", response |-> mapCompletionResponse(ids, result)]
     /\ UNCHANGED <<now, creating, fetching, immediates, subscriptions, workers, checking>>

\* cancel, lines 243-248.
cancel(ids) ==
  LET result == cancelJobs(jobs, ids)
  IN /\ jobs' = result.table
     /\ ret' = [op |-> "cancel", response |-> mapCompletionResponse(ids, result)]
     /\ UNCHANGED <<now, creating, fetching, immediates, subscriptions, workers, checking>>

\* job.done completing the job whatever its error argument.
doneAlwaysCompletes(id, error) ==
  LET result == completeJobs(jobs, <<id>>)
  IN /\ id \in DOMAIN jobs
     /\ jobs[id].dispatched > 0
     /\ jobs' = result.table
     /\ ret' = [op |-> "done", id |-> id, error |-> error,
                response |-> mapCompletionResponse(<<id>>, result)]
     /\ UNCHANGED <<now, creating, fetching, immediates, subscriptions, workers, checking>>

\* job.done, line 87: the resolver of a dispatched job fails or completes
\* that job's id.
done(id, error) ==
  LET result == IF error THEN failJobs(jobs, <<id>>) ELSE completeJobs(jobs, <<id>>)
  IN /\ id \in DOMAIN jobs
     /\ jobs[id].dispatched > 0
     /\ jobs' = result.table
     /\ ret' = [op |-> "done", id |-> id, error |-> error,
                response |-> mapCompletionResponse(<<id>>, result)]
     /\ UNCHANGED <<now, creating, fetching, immediates, subscriptions, workers, checking>>

\* The store's expiration sweep: an active row becomes expired (expireIn
\* is the caller's to choose, so any active row may be due).
expire ==
  /\ \E i \in DOMAIN jobs :
       /\ jobs[i].state = "active"
       /\ jobs' = [jobs EXCEPT ![i].state = "expired"]
  /\ UNCHANGED <<now, creating, fetching, immediates, subscriptions, workers, checking, ret>>

\* The store's clock.
advance ==
  /\ now < MaxTime
  /\ now' = now + 1
  /\ UNCHANGED <<jobs, creating, fetching, immediates, subscriptions, workers, checking, ret>>

\* ------------------------------------------- the subscription registry
\* A registry without / with one more name.
Without(registry, names) == [n \in DOMAIN registry \ names |-> registry[n]]

With(registry, name, w) ==
  [n \in DOMAIN registry \cup {name} |-> IF n = name THEN w ELSE registry[n]]

\* Worker.stop (./worker): the poller issues no further fetch.
StopWorkers(ws, stopping) ==
  [w \in DOMAIN ws |-> IF w \in stopping THEN [ws[w] EXCEPT !.stopped = TRUE] ELSE ws[w]]

\* subscribe, lines 51-54: checkSubscribeArgs is pending, watch follows.
\* overtaken is history: stop ran while the call was pending.
subscribeCall(name, options) ==
  /\ Len(checking) < MaxPending
  /\ checking' = Append(checking,
       [name |-> name, options |-> options, overtaken |-> FALSE])
  /\ UNCHANGED <<now, jobs, creating, fetching, immediates, subscriptions, workers, ret>>

\* No size, a batchSize, or a teamSize alone.
SubscribeOptions ==
  {o \in [batchSize : TeamSizes, teamSize : TeamSizes] :
     o.batchSize = 0 \/ o.teamSize = 0}

subscribe ==
  \E name \in SubNames, options \in SubscribeOptions : subscribeCall(name, options)

\* onComplete, lines 56-59.
onComplete ==
  \E name \in JobNames, options \in SubscribeOptions :
    subscribeCall(name \o completedJobSuffix, options)

\* watch without its assertion.
alreadySubscribedUnchecked(name) == FALSE

\* watch, line 62: the assertion's test, name in this.subscriptions, which
\* sees own and inherited properties.
alreadySubscribed(name) == name \in DOMAIN subscriptions \cup PrototypeKeys

\* watch, line 64.
batchSizeOf(options) ==
  IF options.batchSize # 0 THEN options.batchSize ELSE options.teamSize

\* watch, lines 61-116: the assertion rejects the call, else a Worker is
\* constructed, registered under the name and started.
watch(k) ==
  LET call == checking[k]
      w == Len(workers) + 1
  IN /\ checking' = RemoveAt(checking, k)
     /\ IF alreadySubscribed(call.name)
        THEN /\ ret' = [op |-> "watch", name |-> call.name, rejected |-> TRUE]
             /\ UNCHANGED <<subscriptions, workers>>
        ELSE /\ Len(workers) < MaxWorkers
             /\ workers' = Append(workers,
                  [name |-> call.name, batchSize |-> batchSizeOf(call.options),
                   stopped |-> FALSE])
             /\ subscriptions' = With(subscriptions, call.name, w)
             /\ ret' = [op |-> "watch", name |-> call.name, rejected |-> FALSE]
     /\ UNCHANGED <<now, jobs, creating, fetching, immediates>>

\* The poller's timer (./worker): a running worker issues its bound fetch,
\* line 101; ticks do not wait for earlier fetches or callbacks.
tick(w) ==
  /\ ~workers[w].stopped
  /\ Len(fetching) < MaxInFlight
  /\ fetching' = Append(fetching,
       [worker |-> w, names |-> {workers[w].name}, batchSize |-> workers[w].batchSize])
  /\ UNCHANGED <<now, jobs, creating, immediates, subscriptions, workers, checking, ret>>

\* this.subscriptions[name]: the subscription registered under the name,
\* else what the prototype holds for it, else undefined.
Lookup(name) ==
  IF name \in DOMAIN subscriptions THEN "subscription"
  ELSE IF name \in PrototypeKeys THEN "function"
  ELSE "undefined"

\* unsubscribe dropping the name without stopping its worker.
unsubscribeCallNoStop(op, name) ==
  /\ IF name \notin DOMAIN subscriptions
     THEN /\ ret' = [op |-> op, name |-> name, rejected |-> TRUE, thrown |-> FALSE]
          /\ UNCHANGED subscriptions
     ELSE /\ subscriptions' = Without(subscriptions, {name})
          /\ ret' = [op |-> op, name |-> name, rejected |-> FALSE, thrown |-> FALSE]
  /\ UNCHANGED <<now, jobs, creating, fetching, immediates, workers, checking>>

\* unsubscribe, lines 118-125: a falsy lookup rejects (line 119); line 121
\* reads .worker.stop of what was found, which throws a TypeError out of
\* unsubscribe when that is an inherited function (its .worker is
\* undefined), before anything is changed.
unsubscribeCall(op, name) ==
  /\ IF Lookup(name) = "undefined"
     THEN /\ ret' = [op |-> op, name |-> name, rejected |-> TRUE, thrown |-> FALSE]
          /\ UNCHANGED <<subscriptions, workers>>
     ELSE IF Lookup(name) = "function"
     THEN /\ ret' = [op |-> op, name |-> name, rejected |-> FALSE, thrown |-> TRUE]
          /\ UNCHANGED <<subscriptions, workers>>
     ELSE /\ workers' = StopWorkers(workers, {subscriptions[name]})
          /\ subscriptions' = Without(subscriptions, {name})
          /\ ret' = [op |-> op, name |-> name, rejected |-> FALSE, thrown |-> FALSE]
  /\ UNCHANGED <<now, jobs, creating, fetching, immediates, checking>>

unsubscribe ==
  \E name \in SubNames \cup PrototypeKeys : unsubscribeCall("unsubscribe", name)

\* offComplete, lines 127-129.
offComplete ==
  \E name \in JobNames : unsubscribeCall("offComplete", name \o completedJobSuffix)

\* The pending subscribe calls, marked as overtaken by a stop.
Overtaken(calls) == [k \in DOMAIN calls |-> [calls[k] EXCEPT !.overtaken = TRUE]]

\* stop replacing the registry without unsubscribing its names.
stopOnlyClears ==
  /\ subscriptions' = Without(subscriptions, DOMAIN subscriptions)
  /\ ret' = [op |-> "stop", rejected |-> FALSE, names |-> DOMAIN subscriptions]
  /\ checking' = Overtaken(checking)
  /\ UNCHANGED <<now, jobs, creating, fetching, immediates, workers>>

\* stop, lines 45-49: every registered name (Object.keys: the own keys) is
\* unsubscribed, then the registry is replaced by an empty one.  names
\* records the keys it went through.
stop ==
  /\ workers' = StopWorkers(workers, {subscriptions[n] : n \in DOMAIN subscriptions})
  /\ subscriptions' = Without(subscriptions, DOMAIN subscriptions)
  /\ ret' = [op |-> "stop", rejected |-> FALSE, names |-> DOMAIN subscriptions]
  /\ checking' = Overtaken(checking)
  /\ UNCHANGED <<now, jobs, creating, fetching, immediates>>

\* ------------------------------------------------------ specification
\* The queue: publishers, direct fetchers and finishers racing at the
\* store, with the expiration sweep and the clock.
Next ==
  \/ publish
  \/ \E c \in DOMAIN creating : retry(c)
  \/ fetch
  \/ fetchCompleted
  \/ \E ids \in IdArgs : complete(ids)
  \/ \E ids \in IdArgs : fail(ids)
  \/ \E ids \in IdArgs : cancel(ids)
  \/ expire
  \/ advance

Spec == Init /\ [][Next]_vars

\* Deduplication: publishers with a singleton key racing for the slots of
\* successive windows, jobs leaving their slot by cancel.
publishSingleton ==
  /\ \E name \in JobNames, options \in SingletonOptions : publishCall(name, options)
  /\ Len(jobs') <= MaxSingletons

retryNextSlot(c) == Round2(c) /\ Len(jobs') <= MaxSingletons

cancelOne == \E i \in DOMAIN jobs : cancel(<<i>>)

NextDedup ==
  \/ publishSingleton
  \/ \E c \in DOMAIN creating : retryNextSlot(c)
  \/ cancelOne
  \/ advance

SpecDedup == Init /\ [][NextDedup]_vars

\* The subscriptions: the registry, the pollers and their dispatch, over
\* plain jobs published meanwhile.
publishPlain ==
  /\ \E name \in JobNames, options \in PlainOptions : publishCall(name, options)
  /\ Len(jobs') <= MaxJobs

NextPoll ==
  \/ publishPlain
  \/ subscribe
  \/ onComplete
  \/ \E k \in DOMAIN checking : watch(k)
  \/ \E w \in DOMAIN workers : tick(w)
  \/ \E f \in DOMAIN fetching : claimNext(f)
  \/ dispatch
  \/ \E id \in DOMAIN jobs, error \in BOOLEAN : done(id, error)
  \/ unsubscribe
  \/ offComplete
  \/ stop

SpecPoll == Init /\ [][NextPoll]_vars

\* Delayed jobs: publishers of one key and window asking for a start
\* delay, with and without singletonNextSlot, a direct fetcher and the
\* clock.
DelayedOptions ==
  [startIn : StartIns, singletonKey : Keys \ {""},
   singletonSeconds : WindowSeconds \ {0}, singletonNextSlot : BOOLEAN]

publishDelayed ==
  /\ \E name \in JobNames, options \in DelayedOptions : publishCall(name, options)
  /\ Len(jobs') <= MaxJobs

NextDelay ==
  \/ publishDelayed
  \/ \E c \in DOMAIN creating : retry(c)
  \/ fetch
  \/ advance

SpecDelay == Init /\ [][NextDelay]_vars

\* ---------------------------------------------------------------- claims
\* Every row of the table keeps its place, and its state either stays or
\* moves along an edge of graph.
FollowsGraph(graph) ==
  \A i \in DOMAIN jobs :
    /\ i \in DOMAIN jobs'
    /\ \/ jobs'[i].state = jobs[i].state
       \/ <<jobs[i].state, jobs'[i].state>> \in graph

\* The graph as the specification draws it.
LifecycleGraph ==
  {<<"created", "active">>, <<"created", "cancelled">>,
   <<"active", "completed">>, <<"active", "failed">>, <<"active", "expired">>}

\* C1 as stated: under any interleaving of publish, fetch, complete, fail,
\* cancel and the expiration sweep, every state change of every job is an
\* edge of created -> active -> {completed, failed, expired} or
\* created -> cancelled.
C1_GraphAsStated == [][FollowsGraph(LifecycleGraph)]_vars

\* C1, amended: every state change of every job is an edge of
\* created -> active -> {completed, failed, expired, cancelled} or
\* created -> cancelled (cancel also takes an active job); no job leaves a
\* terminal state and none goes back from active to created.
C1_Lifecycle ==
  [][/\ FollowsGraph(LifecycleGraph \cup {<<"active", "cancelled">>})
     /\ \A i \in DOMAIN jobs :
          /\ jobs[i].state \in Terminal => jobs'[i].state = jobs[i].state
          /\ jobs[i].state = "active" => jobs'[i].state # "created"]_vars

\* A job that was claimed and then cancelled, next to one that expired.
C1_Witness ==
  /\ \E i \in DOMAIN jobs : jobs[i].state = "cancelled" /\ jobs[i].claims = 1
  /\ \E i \in DOMAIN jobs : jobs[i].state = "expired"

\* C2: the job ids two fetch calls return are disjoint: a job is returned
\* by at most one fetch, which is the one claimant that takes it from
\* created to active.
C2_ExclusiveClaim ==
  [][\A i \in DOMAIN jobs :
       jobs'[i].claims # jobs[i].claims =>
         /\ jobs[i].claims = 0
         /\ jobs'[i].claims = 1
         /\ jobs[i].state = "created"
         /\ jobs'[i].state = "active"]_vars

\* Two fetch calls have each returned a job, the later one a single job.
C2_Witness ==
  /\ ret.op = "fetch"
  /\ ret.value.kind = "object"
  /\ \E i \in DOMAIN jobs : i # ret.value.job /\ jobs[i].claims = 1
  /\ jobs[ret.value.job].claims = 1

\* C3: across all ticks of all pollers, overlapping or not, a job id is
\* handed to a subscriber callback at most once.
C3_DispatchedOnce == \A i \in DOMAIN jobs : jobs[i].dispatched <= 1

\* Two jobs claimed by different fetches of pollers have both been
\* dispatched while a further tick's fetch is in flight.
C3_Witness ==
  /\ Len(jobs) = 2
  /\ \A i \in DOMAIN jobs : jobs[i].dispatched = 1
  /\ fetching # <<>>
  /\ \E w \in DOMAIN workers : workers[w].batchSize = 0 /\ ~workers[w].stopped

\* The same command once more, on the table the step leaves, would update
\* no row and change none.
NoOpAgain(Command(_, _), ids) == Command(jobs', ids) = [rowCount |-> 0, table |-> jobs']

\* C4: complete, fail and cancel are idempotent: invoked a second time with
\* the same ids they report updated = 0 and leave every job as it is; and
\* every response's requested is the number of ids passed in, whatever was
\* updated.
C4_Idempotent ==
  [][ret'.op \in {"complete", "fail", "cancel"} =>
       LET ids == ret'.response.jobs
       IN /\ complete(ids) => NoOpAgain(completeJobs, ids)
          /\ fail(ids) => NoOpAgain(failJobs, ids)
          /\ cancel(ids) => NoOpAgain(cancelJobs, ids)
          /\ complete(ids) \/ fail(ids) \/ cancel(ids) =>
               /\ ret'.response.requested = Len(ids)
               /\ ret'.response.updated <= Len(ids)
               /\ ret'.response.updated =
                    Cardinality({i \in DOMAIN jobs : jobs'[i].state # jobs[i].state})]_vars

\* cancel was invoked with two ids whose jobs an earlier cancel had already
\* cancelled: requested 2, updated 0.
C4_Witness ==
  /\ ret.op = "cancel"
  /\ ret.response.requested = 2
  /\ ret.response.updated = 0
  /\ \A k \in DOMAIN ret.response.jobs : jobs[ret.response.jobs[k]].state = "cancelled"

\* Two rows in one slot: the same name, key and window.
SameSlot(a, b) ==
  /\ Slotted(a.singletonKey, a.singletonOn)
  /\ a.name = b.name
  /\ a.singletonKey = b.singletonKey
  /\ a.singletonOn = b.singletonOn

\* C5: in every reachable state, publishers racing on one key included, at
\* most one non-terminal job exists per (name, singletonKey) and window.
C5_OnePerSlot ==
  \A i, j \in DOMAIN jobs :
    (i # j /\ SameSlot(jobs[i], jobs[j])) =>
      (jobs[i].state \in Terminal \/ jobs[j].state \in Terminal)

\* A slot holds a terminal job and its non-terminal successor, the next
\* window's slot is taken, and a publish sent to the next slot is pending.
C5_Witness ==
  /\ \E i, j \in DOMAIN jobs :
       /\ i # j
       /\ SameSlot(jobs[i], jobs[j])
       /\ jobs[i].singletonOn # NoWindow
       /\ jobs[j].state \notin Terminal
  /\ creating # <<>>

\* C6 as stated: of the publishes without singletonNextSlot of one
\* (name, singletonKey) inside one window, exactly one gets a job id: no
\* two rows inserted by a first attempt share a key and a window.
C6_OneIdPerWindow ==
  \A i, j \in DOMAIN jobs :
    (/\ i # j
     /\ jobs[i].attempt = 1
     /\ jobs[j].attempt = 1
     /\ jobs[i].singletonKey # ""
     /\ jobs[i].singletonOn # NoWindow)
    => ~SameSlot(jobs[i], jobs[j])

\* C6, amended: a publish without singletonNextSlot whose (name,
\* singletonKey, window) slot is held by a non-terminal job resolves with
\* null, creates no job and reports no error; with the slot free (empty,
\* or left by a job that reached a terminal state) it resolves with the id
\* of the job it created.  So the second of two such publishes in a window
\* gets null exactly while the first one's job is non-terminal.
C6_DuplicateDropped ==
  [][\A name \in JobNames :
       (ret'.op = "publish" /\ ret'.attempts = 1 /\ ~ret'.options.singletonNextSlot
        /\ publishCall(name, ret'.options)) =>
         LET options == ret'.options
             on == singletonOn(now, singletonSecondsOf(options), 0)
         IN /\ ~ret'.rejected
            /\ IF Occupied(jobs, name, options.singletonKey, on)
               THEN ret'.value = 0 /\ jobs' = jobs
               ELSE /\ ret'.value = Len(jobs) + 1
                    /\ Len(jobs') = Len(jobs) + 1
                    /\ jobs'[ret'.value].state = "created"]_vars

\* A second publish of key k in a window was dropped: null, while the job
\* of the first is active.
C6_Witness ==
  /\ ret.op = "publish"
  /\ ret.value = 0
  /\ ret.attempts = 1
  /\ ret.options.singletonSeconds > 0
  /\ \E i \in DOMAIN jobs :
       /\ jobs[i].state = "active"
       /\ jobs[i].attempt = 1
       /\ jobs[i].singletonKey = ret.options.singletonKey
       /\ jobs[i].singletonOn = singletonOn(now, ret.options.singletonSeconds, 0)

\* The non-terminal job a publish sent to the next slot left in the window
\* after the one where call collided.
NextSlotJobAlive(call) ==
  \E i \in DOMAIN jobs :
    /\ jobs[i].state \notin Terminal
    /\ jobs[i].attempt = 2
    /\ jobs[i].name = call.name
    /\ jobs[i].singletonKey = call.options.singletonKey
    /\ jobs[i].singletonOn = call.collided + call.singletonOffset

\* Round 2 of call created a job that starts no earlier than the end of the
\* window where round 1 collided, in a window of its own.
InNextSlot(call) ==
  LET id == Len(jobs')
      job == jobs'[id]
  IN /\ job.startAfter >= call.collided + call.singletonOffset
     /\ job.singletonOn > call.collided
     /\ \A i \in DOMAIN jobs : jobs'[i].state \notin Terminal => ~SameSlot(jobs'[i], job)

\* A round 2 of a publish whose window (singletonSeconds) is configured.
WindowedRound2(c) == creating[c].singletonOffset > 0 /\ Round2(c)

\* C7 as stated: the job a colliding publish with singletonNextSlot creates
\* starts no earlier than the end of the current window and is no second
\* job of that window; and a further colliding publish with
\* singletonNextSlot, made while that next-slot job is non-terminal,
\* creates no job.
C7_NextSlotAsStated ==
  [][\A c \in DOMAIN creating :
       WindowedRound2(c) =>
         /\ Len(jobs') > Len(jobs) => InNextSlot(creating[c])
         /\ NextSlotJobAlive(creating[c]) => jobs' = jobs]_vars

\* C7, amended: the same, but the further colliding publish creates no job
\* only when its retry reaches the store within the window where it
\* collided; a retry that arrives after the window has rolled over takes
\* the slot after the then-current window.
C7_NextSlot ==
  [][\A c \in DOMAIN creating :
       WindowedRound2(c) =>
         LET call == creating[c]
             current == singletonOn(now, call.singletonOffset, 0)
         IN /\ Len(jobs') > Len(jobs) => InNextSlot(call)
            /\ (NextSlotJobAlive(call) /\ current = call.collided) => jobs' = jobs
            /\ (NextSlotJobAlive(call) /\ current # call.collided /\ Len(jobs') > Len(jobs)) =>
                 jobs'[Len(jobs')].singletonOn > current]_vars

\* A publish was sent to the next slot, and a further colliding publish
\* with singletonNextSlot came back with null after its two inserts.
C7_Witness ==
  /\ ret.op = "publish"
  /\ ret.attempts = 2
  /\ ret.value = 0
  /\ ret.options.singletonSeconds > 0
  /\ \E i, j \in DOMAIN jobs :
       /\ jobs[i].attempt = 1 /\ jobs[i].state \notin Terminal
       /\ jobs[j].attempt = 2 /\ jobs[j].state \notin Terminal
       /\ jobs[i].singletonOn = ret.collided
       /\ jobs[j].singletonOn = ret.collided + ret.options.singletonSeconds
       /\ jobs[j].startAfter >= jobs[j].singletonOn

\* C8: every publish ends after at most two inserts, whatever its options
\* and whatever the store answers: no call waits for a third round.
C8_TwoAttempts ==
  /\ \A c \in DOMAIN creating : creating[c].attempts = 1
  /\ ret.op = "publish" => ret.attempts <= 2

\* A publish with singletonNextSlot and no window configured gave up with
\* null after its second insert.
C8_Witness ==
  /\ ret.op = "publish"
  /\ ret.attempts = 2
  /\ ret.value = 0
  /\ ret.options.singletonSeconds = 0

\* C9 as stated: fetch(name) resolves with one job or null, never an
\* array; fetch(name, n) resolves with an array of 0 to n jobs.
C9_BatchAsStated ==
  ret.op = "fetch" =>
    IF ret.batchSize = 0
    THEN ret.value.kind \in {"null", "object"}
    ELSE ret.value.kind = "array" /\ Len(ret.value.jobs) \in 0..ret.batchSize

\* C9, amended: fetch(name) resolves with one job or null, never an array;
\* fetch(name, n) resolves with null when no job was claimed (never with an
\* empty array) and otherwise with an array of 1 to n jobs.
C9_Batch ==
  ret.op = "fetch" =>
    IF ret.batchSize = 0
    THEN ret.value.kind \in {"null", "object"}
    ELSE \/ ret.value.kind = "null"
         \/ ret.value.kind = "array" /\ Len(ret.value.jobs) \in 1..ret.batchSize

\* fetch(name, 1) resolved with an array of one job and left a second job,
\* as claimable, waiting.
C9_Witness ==
  /\ ret.op = "fetch"
  /\ ret.batchSize = 1
  /\ ret.value.kind = "array"
  /\ Len(ret.value.jobs) = 1
  /\ \E i \in DOMAIN jobs : Claimable(jobs[i], now, JobNames)

\* The running pollers of a subscription name.
Running(ws, name) == {w \in DOMAIN ws : ws[w].name = name /\ ~ws[w].stopped}

\* C10: whatever subscribe, onComplete, unsubscribe, offComplete and stop
\* calls were made, at most one poller runs per subscription name, the one
\* the registry holds; and a subscribe for a name already subscribed fails,
\* adding, replacing and stopping no poller.
C10_OnePollerPerName ==
  [][/\ \A name \in SubNames :
          Running(workers', name) =
            IF name \in DOMAIN subscriptions' THEN {subscriptions'[name]} ELSE {}
     /\ \A k \in DOMAIN checking :
          (checking[k].name \in DOMAIN subscriptions /\ watch(k)) =>
            /\ ret'.op = "watch"
            /\ ret'.rejected
            /\ UNCHANGED <<subscriptions, workers>>]_vars

\* A subscribe for a subscribed name was rejected; its poller still runs,
\* beside an earlier poller of that name that an unsubscribe had stopped.
C10_Witness ==
  /\ ret.op = "watch"
  /\ ret.rejected
  /\ ret.name \in DOMAIN subscriptions
  /\ Running(workers, ret.name) = {subscriptions[ret.name]}
  /\ \E w \in DOMAIN workers : workers[w].name = ret.name /\ workers[w].stopped

\* C11 as stated: unsubscribe(name) for a name with no registered
\* subscription is reported as a rejected operation, not thrown, and leaves
\* the registry and every poller unchanged; so the second of two
\* unsubscribes of a name rejects.
C11_UnknownRejected ==
  [][\A name \in SubNames \cup PrototypeKeys :
       (name \notin DOMAIN subscriptions /\ unsubscribeCall("unsubscribe", name)) =>
         /\ ret'.rejected
         /\ ~ret'.thrown
         /\ UNCHANGED <<subscriptions, workers>>]_vars

\* C12: stop stops the poller of every subscription registered when it is
\* called, stops no other, leaves the registry empty and no poller running,
\* and succeeds; called again, or with no subscriptions, it succeeds and
\* changes neither registry nor pollers.
C12_StopIdempotent ==
  [][stop =>
       /\ ~ret'.rejected
       /\ subscriptions' = <<>>
       /\ \A w \in DOMAIN workers :
            workers'[w].stopped =
              (workers[w].stopped \/ \E n \in DOMAIN subscriptions : subscriptions[n] = w)
       /\ \A name \in SubNames : Running(workers', name) = {}
       /\ subscriptions = <<>> => workers' = workers
       /\ StopWorkers(workers', {subscriptions'[n] : n \in DOMAIN subscriptions'}) = workers'
       /\ Without(subscriptions', DOMAIN subscriptions') = subscriptions']_vars

\* stop went through two registered names and stopped both pollers, one of
\* them with a fetch still in flight.
C12_Witness ==
  /\ ret.op = "stop"
  /\ Cardinality(ret.names) = 2
  /\ subscriptions = <<>>
  /\ Len(workers) = 2
  /\ \A w \in DOMAIN workers : workers[w].stopped
  /\ fetching # <<>>

\* The worker is the poller of a registered subscription.
Registered(w) == \E n \in DOMAIN subscriptions : subscriptions[n] = w

\* The step issues a fetch of worker w.
Issues(w) ==
  /\ Len(fetching') = Len(fetching) + 1
  /\ fetching'[Len(fetching')].worker = w

\* The step is an unsubscribe, an offComplete or a stop.
Unsubscribes ==
  \/ stop
  \/ \E name \in SubNames \cup PrototypeKeys : unsubscribeCall("unsubscribe", name)
  \/ \E name \in SubNames : unsubscribeCall("offComplete", name)

\* C13: a poller whose subscription unsubscribe or stop has removed is
\* stopped, stays stopped and unregistered, and issues no fetch from then
\* on; the unsubscribe or stop itself leaves the fetches in flight, the
\* batches awaiting dispatch and the jobs as they are.
C13_NoFetchOnceStopped ==
  [][/\ \A w \in DOMAIN workers :
          /\ ~Registered(w) => workers[w].stopped /\ ~Registered(w)'
          /\ workers[w].stopped => workers'[w].stopped /\ ~Issues(w)
     /\ Unsubscribes => UNCHANGED <<fetching, immediates, jobs>>]_vars

\* An unsubscribe has stopped the last running poller while a fetch of a
\* stopped poller is in flight and a claimed batch awaits its dispatch.
C13_Witness ==
  /\ ret.op = "unsubscribe"
  /\ ~ret.rejected
  /\ ~ret.thrown
  /\ \A w \in DOMAIN workers : workers[w].stopped
  /\ fetching # <<>>
  /\ immediates # <<>>

\* C14: cancel(ids) takes every given job that is created or active to
\* cancelled, changes nothing else of it, leaves every other job as it is,
\* and reports as updated the number of jobs it took to cancelled.
C14_Cancel ==
  [][(ret'.op = "cancel" /\ cancel(ret'.response.jobs)) =>
       LET ids == ret'.response.jobs
           hit == {i \in DOMAIN jobs :
                     i \in Range(ids) /\ jobs[i].state \in {"created", "active"}}
       IN /\ DOMAIN jobs' = DOMAIN jobs
          /\ \A i \in DOMAIN jobs :
               jobs'[i] = IF i \in hit THEN [jobs[i] EXCEPT !.state = "cancelled"]
                          ELSE jobs[i]
          /\ ret'.response.updated = Cardinality(hit)]_vars

\* cancel of two ids, one of an active job and one of a completed job:
\* updated 1, the active job cancelled, the completed one as it was.
C14_Witness ==
  /\ ret.op = "cancel"
  /\ ret.response.requested = 2
  /\ ret.response.updated = 1
  /\ \E i, j \in Range(ret.response.jobs) :
       /\ jobs[i].state = "cancelled" /\ jobs[i].claims = 1
       /\ jobs[j].state = "completed"

\* C15: a fetch returns a job only if, when it is claimed, the job is
\* created and the clock is at or past its startAfter, and the claim makes
\* it active; so no fetch returns a job that is active, completed, failed,
\* cancelled or expired.
C15_ClaimableOnly ==
  [][\A i \in DOMAIN jobs :
       jobs'[i].claims > jobs[i].claims =>
         /\ jobs[i].state = "created"
         /\ now >= jobs[i].startAfter
         /\ jobs'[i].state = "active"]_vars

\* A fetch came back with null: the one job that was fetched is completed
\* and the other job, created, is not yet due.
C15_Witness ==
  /\ ret.op = "fetch"
  /\ ret.value.kind = "null"
  /\ \E i, j \in DOMAIN jobs :
       /\ jobs[i].state = "completed" /\ jobs[i].claims = 1
       /\ jobs[j].state = "created" /\ jobs[j].startAfter > now /\ jobs[j].claims = 0

\* C19 as stated: no job a publish creates is due before the time its
\* caller asked for, the clock at the publish plus startIn, in the first
\* round or in the retry into the next slot.
C19_StartInHonoured ==
  [][/\ \A c \in DOMAIN creating :
          (Round2(c) /\ Len(jobs') > Len(jobs)) =>
            jobs'[Len(jobs')].startAfter >= creating[c].notBefore
     /\ \A name \in JobNames, options \in DelayedOptions :
          (publishCall(name, options) /\ Len(jobs') > Len(jobs)) =>
            jobs'[Len(jobs')].startAfter >= now + startInOf(options)]_vars

\* C16: the run that dispatches a batch invokes the callback exactly once
\* for each job of the batch and for no other job, whichever of the
\* callbacks throw, and stops no poller and drops no fetch in flight.
C16_OncePerJob ==
  [][(ret'.op = "respond" /\ dispatch) =>
       /\ \A i \in DOMAIN jobs :
            jobs'[i].dispatched =
              jobs[i].dispatched + (IF i \in Range(ret'.batch) THEN 1 ELSE 0)
       /\ \A i \in Range(ret'.batch) : jobs'[i].dispatched = 1
       /\ UNCHANGED <<workers, subscriptions, fetching>>]_vars

\* A batch of two was dispatched; the callback threw for the first job,
\* the second job was dispatched all the same and the poller still runs.
C16_Witness ==
  /\ ret.op = "respond"
  /\ Len(ret.batch) = 2
  /\ ret.threw = {ret.batch[1]}
  /\ \A i \in Range(ret.batch) : jobs[i].dispatched = 1
  /\ \E w \in DOMAIN workers : ~workers[w].stopped /\ workers[w].batchSize = 2

\* C17: the done resolver of a dispatched job acts on that job's id alone:
\* with an error it takes the job from active to failed, without one from
\* active to completed, and reports updated 1; on a job no longer active,
\* as after an earlier done, it changes nothing and reports updated 0; and
\* after any done, a further done of that job, in either form, changes
\* nothing.
C17_DoneResolver ==
  [][(ret'.op = "done" /\ done(ret'.id, ret'.error)) =>
       LET id == ret'.id
       IN /\ \A i \in DOMAIN jobs : i # id => jobs'[i] = jobs[i]
          /\ jobs[id].state = "active" =>
               /\ jobs'[id] = [jobs[id] EXCEPT
                                 !.state = IF ret'.error THEN "failed" ELSE "completed"]
               /\ ret'.response.updated = 1
          /\ jobs[id].state # "active" =>
               /\ jobs'[id] = jobs[id]
               /\ ret'.response.updated = 0
          /\ NoOpAgain(failJobs, <<id>>)
          /\ NoOpAgain(completeJobs, <<id>>)]_vars

\* done was called with an error on a job an earlier done had completed:
\* updated 0, the job still completed, while the other dispatched job of
\* the batch is failed.
C17_Witness ==
  /\ ret.op = "done"
  /\ ret.error
  /\ ret.response.updated = 0
  /\ jobs[ret.id].state = "completed"
  /\ \E i \in DOMAIN jobs : i # ret.id /\ jobs[i].state = "failed" /\ jobs[i].dispatched = 1

\* C18: the step in which a poller's fetch claims its jobs invokes no
\* callback: it hands the claimed jobs, as one batch, to a later step; and
\* the step that invokes the callbacks of a batch is that later step, which
\* claims nothing and completes no fetch.  So callbacks are never run
\* inside the completion of the fetch, and further fetches can be issued
\* and completed while a batch waits.
C18_DeferredDispatch ==
  [][/\ \A f \in DOMAIN fetching :
          claimNext(f) =>
            LET got == {i \in DOMAIN jobs : jobs'[i].claims > jobs[i].claims}
            IN /\ \A i \in DOMAIN jobs : jobs'[i].dispatched = jobs[i].dispatched
               /\ immediates' = IF got = {} THEN immediates
                                ELSE Append(immediates, Ascending(got))
     /\ (\E i \in DOMAIN jobs : jobs'[i].dispatched # jobs[i].dispatched) =>
          /\ immediates # <<>>
          /\ immediates' = Tail(immediates)
          /\ fetching' = fetching
          /\ \A i \in DOMAIN jobs :
               /\ jobs'[i].claims = jobs[i].claims
               /\ jobs'[i].dispatched # jobs[i].dispatched => i \in Range(Head(immediates))]_vars

\* Two fetches of the one poller have each claimed a job and neither batch
\* has been dispatched yet, while a third fetch of it is in flight.
C18_Witness ==
  /\ Len(workers) = 1
  /\ Len(immediates) = 2
  /\ \A i \in DOMAIN jobs : jobs[i].claims = 1 /\ jobs[i].dispatched = 0
  /\ fetching # <<>>

\* C20 as stated: a subscribe or onComplete whose argument check was still
\* pending when stop ran leaves, when it settles, the registry as stop left
\* it and no poller of its own running; so once every call pending at the
\* stop has settled the registry is empty and no poller runs.
C20_NothingAfterStop ==
  [][\A k \in DOMAIN checking :
       (checking[k].overtaken /\ watch(k)) =>
         /\ subscriptions' = subscriptions
         /\ \A w \in DOMAIN workers' \ DOMAIN workers : workers'[w].stopped]_vars

====
